---- MODULE Spec2Model ----
(***************************************************************************)
(* Bulk PDF Data Extractor (src/app.py): the Streamlit script main() and   *)
(* extract_structured_data(), modelled as a state machine.                 *)
(*                                                                         *)
(* Python strings are sequences of one-character strings, so that strip(), *)
(* startswith(), the fixed-offset slices and json.loads() act on           *)
(* characters exactly as the code does.  Python values are tagged records. *)
(*                                                                         *)
(* Streamlit runs main() from the top on every interaction; session_state  *)
(* and the widget values outlive a run, the locals do not.  A run is       *)
(* modelled to its end before the next interaction is taken.               *)
(***************************************************************************)
EXTENDS Integers, Sequences, FiniteSets, TLC

Range(s) == {s[k] : k \in 1..Len(s)}

(***************************************************************************)
(* String literals of the program.                                         *)
(***************************************************************************)
company_name == <<"c","o","m","p","a","n","y","_","n","a","m","e">>
invoice_number == <<"i","n","v","o","i","c","e","_","n","u","m","b","e","r">>
total_amount == <<"t","o","t","a","l","_","a","m","o","u","n","t">>
utr_number == <<"u","t","r","_","n","u","m","b","e","r">>
claim_number == <<"c","l","a","i","m","_","n","u","m","b","e","r">>
payment_credited_date ==
    <<"p","a","y","m","e","n","t","_","c","r","e","d","i","t","e","d","_","d","a","t","e">>

\* list(AVAILABLE_FIELDS.keys()), the options of the multiselect
AVAILABLE_FIELDS ==
    <<company_name, invoice_number, total_amount,
      utr_number, claim_number, payment_credited_date>>

\* default=[...] of the multiselect
DefaultFields == <<company_name, invoice_number, total_amount>>

FileNameKey == <<"F","i","l","e"," ","N","a","m","e">>
NotFoundText == <<"N","o","t"," ","F","o","u","n","d">>
\* the backquote character (a string of the module cannot hold it)
BQ == "backquote"
FenceJson == <<BQ, BQ, BQ, "j","s","o","n">>
Fence == <<BQ, BQ, BQ>>

(***************************************************************************)
(* Python values.                                                          *)
(***************************************************************************)
None == [t |-> "None"]
PyBool(b) == [t |-> "bool", b |-> b]
PyInt(n) == [t |-> "int", n |-> n]
PyStr(s) == [t |-> "str", s |-> s]
PyList(a) == [t |-> "list", a |-> a]
PyDict(o) == [t |-> "dict", o |-> o]

EmptyDict == <<>>

\* d[k] = v on a dict held as a function from keys to values
DictSet(d, k, v) == [x \in (DOMAIN d) \cup {k} |-> IF x = k THEN v ELSE d[x]]

\* d.get(k, default)
DictGet(d, k, default) == IF k \in DOMAIN d THEN d[k] ELSE default

\* bool(v): the test made by "if extracted_data:"
Truthy(v) ==
    CASE v.t = "None" -> FALSE
      [] v.t = "bool" -> v.b
      [] v.t = "int" -> v.n # 0
      [] v.t = "str" -> Len(v.s) > 0
      [] v.t = "list" -> Len(v.a) > 0
      [] v.t = "dict" -> DOMAIN v.o # {}

\* only a dict has the attribute .get; on any other value the access
\* extracted_data.get raises AttributeError
HasGet(v) == v.t = "dict"

(***************************************************************************)
(* str.strip(), str.startswith() and the slice s[a:-b].                    *)
(***************************************************************************)
Whitespace == {" ", "\n", "\t", "\r"}

RECURSIVE LStrip(_)
LStrip(s) ==
    IF Len(s) > 0 /\ s[1] \in Whitespace THEN LStrip(Tail(s)) ELSE s

RECURSIVE RStrip(_)
RStrip(s) ==
    IF Len(s) > 0 /\ s[Len(s)] \in Whitespace
    THEN RStrip(SubSeq(s, 1, Len(s) - 1))
    ELSE s

Strip(s) == RStrip(LStrip(s))

StartsWith(s, prefix) ==
    Len(s) >= Len(prefix) /\ SubSeq(s, 1, Len(prefix)) = prefix

\* s[a:-b] for a >= 0, b > 0
PySlice(s, a, b) ==
    IF a + 1 > Len(s) - b THEN <<>> ELSE SubSeq(s, a + 1, Len(s) - b)

(***************************************************************************)
(* json.loads() on the JSON grammar without escapes, fractions and         *)
(* exponents: objects, arrays, strings, integers, true, false, null.       *)
(***************************************************************************)
Digits == {"0","1","2","3","4","5","6","7","8","9"}

DigitVal(c) ==
    CASE c = "0" -> 0 [] c = "1" -> 1 [] c = "2" -> 2 [] c = "3" -> 3
      [] c = "4" -> 4 [] c = "5" -> 5 [] c = "6" -> 6 [] c = "7" -> 7
      [] c = "8" -> 8 [] c = "9" -> 9

ParseFail == [ok |-> FALSE, v |-> None, p |-> 0]
ParseOk(v, p) == [ok |-> TRUE, v |-> v, p |-> p]

RECURSIVE SkipWs(_, _)
SkipWs(s, p) ==
    IF p <= Len(s) /\ s[p] \in Whitespace THEN SkipWs(s, p + 1) ELSE p

Matches(s, p, lit) ==
    p + Len(lit) - 1 <= Len(s) /\ SubSeq(s, p, p + Len(lit) - 1) = lit

RECURSIVE FindQuote(_, _)
FindQuote(s, p) ==
    IF p > Len(s) THEN 0
    ELSE IF s[p] = "\"" THEN p
    ELSE FindQuote(s, p + 1)

\* s[p] is the opening quote
ParseString(s, p) ==
    LET q == FindQuote(s, p + 1)
    IN  IF q = 0 THEN ParseFail
        ELSE ParseOk(PyStr(SubSeq(s, p + 1, q - 1)), q + 1)

RECURSIVE ParseDigits(_, _, _)
ParseDigits(s, p, acc) ==
    IF p <= Len(s) /\ s[p] \in Digits
    THEN ParseDigits(s, p + 1, 10 * acc + DigitVal(s[p]))
    ELSE [n |-> acc, p |-> p]

\* integer: -? (0 | [1-9][0-9]*)
ParseNumber(s, p) ==
    LET neg == s[p] = "-"
        q == IF neg THEN p + 1 ELSE p
    IN  IF q > Len(s) \/ s[q] \notin Digits THEN ParseFail
        ELSE IF s[q] = "0" THEN ParseOk(PyInt(0), q + 1)
        ELSE LET d == ParseDigits(s, q, 0)
             IN  ParseOk(PyInt(IF neg THEN 0 - d.n ELSE d.n), d.p)

RECURSIVE ParseValue(_, _)
RECURSIVE ParseElements(_, _, _)
RECURSIVE ParseMembers(_, _, _)

\* the elements of an array after "[" or ",": value (, value)* ]
ParseElements(s, p, acc) ==
    LET r == ParseValue(s, p)
        q == SkipWs(s, r.p)
    IN  IF ~r.ok \/ q > Len(s) THEN ParseFail
        ELSE IF s[q] = "]" THEN ParseOk(PyList(Append(acc, r.v)), q + 1)
        ELSE IF s[q] = "," THEN ParseElements(s, SkipWs(s, q + 1), Append(acc, r.v))
        ELSE ParseFail

\* the members of an object after "{" or ",": "key" : value (, ...)* }
ParseMembers(s, p, acc) ==
    IF p > Len(s) \/ s[p] # "\"" THEN ParseFail
    ELSE
    LET k == ParseString(s, p)
        c == SkipWs(s, k.p)
    IN  IF ~k.ok \/ c > Len(s) \/ s[c] # ":" THEN ParseFail
        ELSE
        LET r == ParseValue(s, SkipWs(s, c + 1))
            q == SkipWs(s, r.p)
            d == DictSet(acc, k.v.s, r.v)
        IN  IF ~r.ok \/ q > Len(s) THEN ParseFail
            ELSE IF s[q] = "}" THEN ParseOk(PyDict(d), q + 1)
            ELSE IF s[q] = "," THEN ParseMembers(s, SkipWs(s, q + 1), d)
            ELSE ParseFail

ParseValue(s, p) ==
    IF p > Len(s) THEN ParseFail
    ELSE IF s[p] = "{" THEN
        LET q == SkipWs(s, p + 1)
        IN  IF q <= Len(s) /\ s[q] = "}" THEN ParseOk(PyDict(EmptyDict), q + 1)
            ELSE ParseMembers(s, q, EmptyDict)
    ELSE IF s[p] = "[" THEN
        LET q == SkipWs(s, p + 1)
        IN  IF q <= Len(s) /\ s[q] = "]" THEN ParseOk(PyList(<<>>), q + 1)
            ELSE ParseElements(s, q, <<>>)
    ELSE IF s[p] = "\"" THEN ParseString(s, p)
    ELSE IF s[p] = "-" \/ s[p] \in Digits THEN ParseNumber(s, p)
    ELSE IF Matches(s, p, <<"t","r","u","e">>) THEN ParseOk(PyBool(TRUE), p + 4)
    ELSE IF Matches(s, p, <<"f","a","l","s","e">>) THEN ParseOk(PyBool(FALSE), p + 5)
    ELSE IF Matches(s, p, <<"n","u","l","l">>) THEN ParseOk(None, p + 4)
    ELSE ParseFail

\* json.loads(s): ok = FALSE stands for json.JSONDecodeError
json_loads(s) ==
    LET r == ParseValue(s, SkipWs(s, 1))
    IN  IF r.ok /\ SkipWs(s, r.p) = Len(s) + 1
        THEN [ok |-> TRUE, v |-> r.v]
        ELSE [ok |-> FALSE, v |-> None]

(***************************************************************************)
(* Bounds of the model.                                                    *)
(***************************************************************************)
\* most files held by the uploader at once
MaxFiles == 2
\* most names held by session_state.processed_files (the list is never
\* cleared by the program)
MaxProcessed == 2

(***************************************************************************)
(* Inputs: uploaded file names, field selections, API keys, model replies. *)
(***************************************************************************)
NameA == <<"A",".","p","d","f">>
NameB == <<"B",".","p","d","f">>
FileNames == {NameA, NameB}

\* the values of st.file_uploader: lists of UploadedFile, here their .name;
\* the uploader does not make names unique
UploadLists == UNION {[1..n -> FileNames] : n \in 0..MaxFiles}

\* the lists in which no two files have the same name
DistinctUploadLists ==
    {files \in UploadLists :
        \A j, k \in 1..Len(files) : j # k => files[j] # files[k]}

\* the values of st.multiselect taken by the model
FieldSelections == {<<>>, <<company_name>>, DefaultFields}

\* the text typed as API key: nothing; a key the client library refuses;
\* a well-formed key the service does not accept; a key the service accepts
NoKey == ""
RefusedKey == "refused-key"
InvalidKey == "invalid-key"
ValidKey == "valid-key"
ApiKeys == {NoKey, RefusedKey, InvalidKey, ValidKey}

Quoted(s) == <<"\"">> \o s \o <<"\"">>

ReplyFull ==
    <<"{">> \o Quoted(company_name) \o <<":">> \o Quoted(<<"A">>) \o <<",">>
    \o Quoted(total_amount) \o <<":","n","u","l","l",",">>
    \o Quoted(utr_number) \o <<":","7","}">>
ReplyOther == <<"{">> \o Quoted(<<"x">>) \o <<":","n","u","l","l","}">>
ReplyEmptyObject == <<"{","}">>
ReplyList == <<"[","1","]">>
ReplyZero == <<"0">>
ReplyString == Quoted(<<"o","k">>)
ReplyNull == <<"n","u","l","l">>
ReplyGarbage == <<"n","o","t"," ","j","s","o","n"," ","a","t"," ","a","l","l">>

FencedJson(s) == FenceJson \o <<"\n">> \o s \o <<"\n">> \o Fence
Fenced(s) == Fence \o <<"\n">> \o s \o <<"\n">> \o Fence

\* response.text of the replies taken by the model
Replies ==
    {ReplyFull, ReplyOther, ReplyEmptyObject, ReplyList, ReplyZero,
     ReplyString, ReplyNull, ReplyGarbage,
     FencedJson(ReplyFull), Fenced(ReplyGarbage)}

\* what model.generate_content(...) / response.text does: raises, or
\* yields a text
Raised == [raised |-> TRUE, text |-> <<>>]
Replied(text) == [raised |-> FALSE, text |-> text]
NoCall == [raised |-> FALSE, text |-> <<>>]

\* the service rejects every call made with a key it does not accept
Outcomes(key) ==
    IF key = ValidKey THEN {Raised} \cup {Replied(r) : r \in Replies}
    ELSE {Raised}

(***************************************************************************)
(* extract_structured_data                                                 *)
(***************************************************************************)
\* lines 38-44: strip, then cut the markdown fence by fixed offsets
CleanResponse(text) ==
    LET response_text == Strip(text)
    IN  IF StartsWith(response_text, FenceJson)
        THEN Strip(PySlice(response_text, 7, 3))
        ELSE IF StartsWith(response_text, Fence)
        THEN Strip(PySlice(response_text, 3, 3))
        ELSE response_text

\* extract_structured_data with "return response_text" in the handler of
\* json.JSONDecodeError
extract_returning_text(outcome) ==
    IF outcome.raised
    THEN [ret |-> None, err |-> "exception", text |-> <<>>]
    ELSE LET response_text == CleanResponse(outcome.text)
             j == json_loads(response_text)
         IN  IF j.ok THEN [ret |-> j.v, err |-> "", text |-> response_text]
             ELSE [ret |-> PyStr(response_text), err |-> "parse",
                   text |-> response_text]

\* the value returned, the st.error the call shows ("" none, "parse"
\* line 51, "exception" line 54), and the text given to json.loads
extract_structured_data(outcome) ==
    IF outcome.raised
    THEN [ret |-> None, err |-> "exception", text |-> <<>>]
    ELSE LET response_text == CleanResponse(outcome.text)
             j == json_loads(response_text)
         IN  IF j.ok THEN [ret |-> j.v, err |-> "", text |-> response_text]
             ELSE [ret |-> None, err |-> "parse", text |-> response_text]

\* extract_structured_data on every outcome of the model, tabulated
AllOutcomes == {Raised} \cup {Replied(r) : r \in Replies}
\* the function x |-> Op(x) on S as an explicit table, so that the
\* extraction of a reply is computed once and looked up afterwards
RECURSIVE Tabulated(_, _)
Tabulated(Op(_), S) ==
    IF S = {} THEN <<>>
    ELSE LET x == CHOOSE y \in S : TRUE
         IN  (x :> Op(x)) @@ Tabulated(Op, S \ {x})

Extraction == Tabulated(extract_structured_data, AllOutcomes)

(***************************************************************************)
(* main(): one run of the script per user interaction.                     *)
(***************************************************************************)
VARIABLES
    api_key,              \* st.text_input
    selected_fields,      \* st.multiselect
    uploaded_files,       \* st.file_uploader: the names of the files
    failed_files,         \* st.session_state.failed_files
    processed_files,      \* st.session_state.processed_files
    processing_complete,  \* st.session_state.processing_complete
    pc,                   \* "idle", or the loop the running script is in
    i,                    \* iterations of that loop done so far
    saved_files,          \* local of the batch branch
    results,              \* local of the batch and of the retry branch
    new_failures,         \* local of the retry branch
    response,             \* outcome of the latest model call of the run
    extracted_data,       \* value returned by the latest extract call
    st_error,             \* st.error shown by the latest extract call
    rendered,             \* how far the last finished run got: "key"
                          \* (returned at 74/82), "fields" (at 95), "all"
    retry_button,         \* "Reprocess Failed Files" is on the page
    message,              \* status message of the last finished run
    dataframe,            \* rows shown by st.dataframe in that run
    listed_failed,        \* names shown by st.write(failed_files)
    attempted,            \* names given to extract since the batch began
    response_text,        \* the text the latest extract call gave to json.loads
    events,               \* what the latest loop iteration did, in order
    temp_files,           \* files of NamedTemporaryFile(delete=False) that exist
    error_shown           \* document names in the st.error messages of the run

vars ==
    <<api_key, selected_fields, uploaded_files, failed_files,
      processed_files, processing_complete, pc, i, saved_files, results,
      new_failures, response, extracted_data, st_error, rendered,
      retry_button, message, dataframe, listed_failed, attempted,
      response_text, events, temp_files, error_shown>>

widgets == <<api_key, selected_fields, uploaded_files>>
session == <<failed_files, processed_files, processing_complete>>
locals ==
    <<i, saved_files, results, new_failures, response, extracted_data,
      st_error, response_text, events>>
page == <<rendered, retry_button, message, dataframe, listed_failed>>

\* lines 77-82: genai.configure / GenerativeModel raise
ConfigureRaises(key) == key = RefusedKey

\* a script without the return of lines 93-95
GateIgnoringFields(key, fields) ==
    IF key = NoKey THEN "warn_key"
    ELSE IF ConfigureRaises(key) THEN "err_key"
    ELSE "ok"

\* lines 71-95: where the script returns before the buttons
Gate(key, fields) ==
    IF key = NoKey THEN "warn_key"
    ELSE IF ConfigureRaises(key) THEN "err_key"
    ELSE IF fields = <<>> THEN "warn_fields"
    ELSE "ok"

RenderedAt(gate) ==
    IF gate \in {"warn_key", "err_key"} THEN "key"
    ELSE IF gate = "warn_fields" THEN "fields"
    ELSE "all"

\* lines 141-143: the row of a document
RECURSIVE FillRow(_, _, _)
FillRow(row, extracted, fields) ==
    IF fields = <<>> THEN row
    ELSE FillRow(DictSet(row, Head(fields), DictGet(extracted, Head(fields), PyStr(NotFoundText))),
                 extracted, Tail(fields))

\* the row made by copying the whole reply and filling in the selected
\* fields it lacks
MakeRowCopyingReply(file_name, extracted, fields) ==
    FillRow(DictSet(extracted.o, FileNameKey, PyStr(file_name)), extracted.o, fields)

MakeRow(file_name, extracted, fields) ==
    FillRow(DictSet(EmptyDict, FileNameKey, PyStr(file_name)), extracted.o, fields)

\* lines 198-199: position of the first uploaded file of that name, 0 if none
RECURSIVE FindUpload(_, _, _)
FindUpload(files, file_name, k) ==
    IF k > Len(files) THEN 0
    ELSE IF files[k] = file_name THEN k
    ELSE FindUpload(files, file_name, k + 1)

\* an extract call that sends generate_content again after a failure
ServiceCallsWithRetry(outcome) ==
    IF outcome.raised
    THEN {<<"upload_file">>, <<"upload_file", "generate_content", "generate_content">>}
    ELSE {<<"upload_file", "generate_content">>}

\* lines 30-35: the requests one extract call sends, in order: the list
\* [prompt, genai.upload_file(file_path)] is built first, so the file is
\* uploaded before model.generate_content is called, and when the upload
\* raises generate_content is not called at all
ServiceCalls(outcome) ==
    IF outcome.raised
    THEN {<<"upload_file">>, <<"upload_file", "generate_content">>}
    ELSE {<<"upload_file", "generate_content">>}

\* lines 139-147, 207-214: what the loop does with the value returned
Recorded(ret) ==
    IF Truthy(ret)
    THEN IF HasGet(ret) THEN "append_row" ELSE "AttributeError"
    ELSE "append_failure"

\* lines 137-147: one iteration of the batch loop
BatchEvents(calls, ret) == calls \o <<Recorded(ret)>>

\* a retry loop that deletes the temporary file only after a successful
\* extraction
RetryEventsUnlinkOnSuccess(calls, ret) ==
    IF Truthy(ret)
    THEN <<"NamedTemporaryFile">> \o calls \o <<"unlink">> \o <<Recorded(ret)>>
    ELSE <<"NamedTemporaryFile">> \o calls \o <<Recorded(ret)>>

\* lines 200-214: one iteration of the retry loop for a file that is found
RetryEvents(calls, ret) ==
    <<"NamedTemporaryFile">> \o calls \o <<"unlink">> \o <<Recorded(ret)>>

Count(seq, x) == Cardinality({k \in 1..Len(seq) : seq[k] = x})

\* the temporary files that exist after an iteration
TempFilesAfter(n, evs) ==
    n + Count(evs, "NamedTemporaryFile") - Count(evs, "unlink")

\* a table that receives each new row at its head
AddRowInFront(rows, row) == <<row>> \o rows

\* lines 144, 211: results.append(row)
AddRow(rows, row) == Append(rows, row)

\* a retry that does not look at processing_complete
RetryConditionIgnoringComplete(failed, complete) == failed # <<>>

\* line 182: the condition under which the retry button is made and acted on
RetryCondition(failed, complete) == failed # <<>> /\ complete

LocalsReset ==
    /\ i' = 0
    /\ saved_files' = <<>>
    /\ results' = <<>>
    /\ new_failures' = <<>>
    /\ response' = NoCall
    /\ extracted_data' = None
    /\ st_error' = ""
    /\ response_text' = <<>>
    /\ events' = <<>>

\* a run in which no button is acted on: lines 57-106, the false branch of
\* 108, and the condition of 182
RunWithoutAction(key, fields, failed, complete) ==
    LET gate == Gate(key, fields)
    IN  /\ rendered' = RenderedAt(gate)
        /\ message' = IF gate = "ok" THEN "none" ELSE gate
        /\ retry_button' = (gate = "ok" /\ RetryCondition(failed, complete))
        /\ dataframe' = <<>>
        /\ listed_failed' = <<>>
        /\ error_shown' = {}
        /\ LocalsReset
        /\ pc' = "idle"
        /\ UNCHANGED temp_files

Init ==
    /\ api_key = NoKey
    /\ selected_fields = DefaultFields
    /\ uploaded_files = <<>>
    /\ failed_files = <<>>
    /\ processed_files = <<>>
    /\ processing_complete = FALSE
    /\ pc = "idle"
    /\ i = 0
    /\ saved_files = <<>>
    /\ results = <<>>
    /\ new_failures = <<>>
    /\ response = NoCall
    /\ extracted_data = None
    /\ st_error = ""
    /\ rendered = "key"
    /\ retry_button = FALSE
    /\ message = "warn_key"
    /\ dataframe = <<>>
    /\ listed_failed = <<>>
    /\ attempted = {}
    /\ response_text = <<>>
    /\ events = <<>>
    /\ temp_files = 0
    /\ error_shown = {}

\* the user types an API key (line 71)
SetApiKey(key) ==
    /\ pc = "idle"
    /\ key # api_key
    /\ api_key' = key
    /\ RunWithoutAction(key, selected_fields, failed_files, processing_complete)
    /\ UNCHANGED <<selected_fields, uploaded_files, session, attempted>>

\* the user changes the selection (line 86)
SelectFields(fields) ==
    /\ pc = "idle"
    /\ rendered \in {"fields", "all"}
    /\ fields # selected_fields
    /\ selected_fields' = fields
    /\ RunWithoutAction(api_key, fields, failed_files, processing_complete)
    /\ UNCHANGED <<api_key, uploaded_files, session, attempted>>

\* the user adds or removes files (line 98)
UploadFiles(files) ==
    /\ pc = "idle"
    /\ rendered = "all"
    /\ files # uploaded_files
    /\ uploaded_files' = files
    /\ RunWithoutAction(api_key, selected_fields, failed_files, processing_complete)
    /\ UNCHANGED <<api_key, selected_fields, session, attempted>>

\* "Extract Data" is pressed (line 108); lines 109-125 when there are files
ClickExtract ==
    /\ pc = "idle"
    /\ rendered = "all"
    /\ IF uploaded_files # <<>>
       THEN /\ Len(processed_files) + Len(uploaded_files) <= MaxProcessed
            /\ processing_complete' = FALSE
            /\ failed_files' = <<>>
            /\ results' = <<>>
            /\ saved_files' = uploaded_files
            /\ i' = 0
            /\ pc' = "batch"
            /\ attempted' = {}
            /\ error_shown' = {}
            /\ UNCHANGED <<processed_files, new_failures, response,
                           extracted_data, st_error, response_text, events,
                           temp_files, page>>
       ELSE /\ RunWithoutAction(api_key, selected_fields, failed_files,
                                processing_complete)
            /\ UNCHANGED <<session, attempted>>
    /\ UNCHANGED widgets

\* the uncaught AttributeError of extracted_data.get (lines 143, 210) ends
\* the run; the page shows the traceback
Abort ==
    /\ pc' = "idle"
    /\ message' = "exception"
    /\ dataframe' = <<>>
    /\ listed_failed' = <<>>
    /\ i' = 0
    /\ saved_files' = <<>>
    /\ results' = <<>>
    /\ new_failures' = <<>>

\* one iteration of the batch loop (lines 128-147)
BatchStep ==
    /\ pc = "batch"
    /\ i < Len(saved_files)
    /\ \E outcome \in Outcomes(api_key) : \E calls \in ServiceCalls(outcome) :
        LET file_name == saved_files[i + 1]
            e == Extraction[outcome]
        IN  /\ response' = outcome
            /\ extracted_data' = e.ret
            /\ st_error' = e.err
            /\ response_text' = e.text
            /\ events' = BatchEvents(calls, e.ret)
            /\ error_shown' = IF e.err = "" THEN error_shown
                              ELSE error_shown \cup {file_name}
            /\ attempted' = attempted \cup {file_name}
            /\ IF Truthy(e.ret)
               THEN IF HasGet(e.ret)
                    THEN /\ results' = AddRow(results, MakeRow(file_name, e.ret, selected_fields))
                         /\ processed_files' = Append(processed_files, file_name)
                         /\ i' = i + 1
                         /\ UNCHANGED <<failed_files, pc, saved_files, new_failures, page>>
                    ELSE /\ Abort
                         /\ retry_button' = FALSE
                         /\ UNCHANGED <<failed_files, processed_files, rendered>>
               ELSE /\ failed_files' = Append(failed_files, file_name)
                    /\ i' = i + 1
                    /\ UNCHANGED <<processed_files, results, pc, saved_files,
                                   new_failures, page>>
    /\ UNCHANGED <<widgets, processing_complete, temp_files>>

\* the end of the batch run (lines 149-182)
BatchEnd ==
    /\ pc = "batch"
    /\ i = Len(saved_files)
    /\ processing_complete' = TRUE
    /\ IF results # <<>>
       THEN /\ dataframe' = results
            /\ message' = "completed"
            /\ listed_failed' = failed_files
       ELSE /\ dataframe' = <<>>
            /\ message' = "no_data"
            /\ listed_failed' = <<>>
    /\ retry_button' = (failed_files # <<>>)
    /\ LocalsReset
    /\ pc' = "idle"
    /\ UNCHANGED <<widgets, failed_files, processed_files, rendered, attempted,
                   error_shown, temp_files>>

\* "Reprocess Failed Files" is pressed (lines 182-189)
ClickRetry ==
    /\ pc = "idle"
    /\ retry_button
    /\ IF RetryCondition(failed_files, processing_complete)
       THEN /\ Len(processed_files) + Len(failed_files) <= MaxProcessed
            /\ results' = <<>>
            /\ new_failures' = <<>>
            /\ i' = 0
            /\ pc' = "retry"
            /\ error_shown' = {}
            /\ UNCHANGED <<saved_files, response, extracted_data, st_error,
                           response_text, events, temp_files, page>>
       ELSE RunWithoutAction(api_key, selected_fields, failed_files,
                             processing_complete)
    /\ UNCHANGED <<widgets, session, attempted>>

\* one iteration of the retry loop (lines 191-215)
RetryStep ==
    /\ pc = "retry"
    /\ i < Len(failed_files)
    /\ LET file_name == failed_files[i + 1]
           found == FindUpload(uploaded_files, file_name, 1)
       IN  IF found = 0
           THEN /\ i' = i + 1
                /\ UNCHANGED <<processed_files, results, new_failures, pc,
                               saved_files, response, extracted_data,
                               st_error, response_text, events, temp_files,
                               page, attempted>>
           ELSE \E outcome \in Outcomes(api_key) : \E calls \in ServiceCalls(outcome) :
                LET e == Extraction[outcome]
                IN  /\ response' = outcome
                    /\ extracted_data' = e.ret
                    /\ st_error' = e.err
                    /\ response_text' = e.text
                    /\ events' = RetryEvents(calls, e.ret)
                    /\ temp_files' = TempFilesAfter(temp_files, events')
                    /\ attempted' = attempted \cup {file_name}
                    /\ IF Truthy(e.ret)
                       THEN IF HasGet(e.ret)
                            THEN /\ results' = AddRow(results, MakeRow(file_name, e.ret, selected_fields))
                                 /\ processed_files' = Append(processed_files, file_name)
                                 /\ i' = i + 1
                                 /\ UNCHANGED <<pc, saved_files, new_failures, page>>
                            ELSE /\ Abort
                                 /\ retry_button' = TRUE
                                 /\ UNCHANGED <<processed_files, rendered>>
                       ELSE /\ new_failures' = Append(new_failures, file_name)
                            /\ i' = i + 1
                            /\ UNCHANGED <<processed_files, results, pc,
                                           saved_files, page>>
    /\ UNCHANGED <<widgets, failed_files, processing_complete, error_shown>>

\* the retry extending failed_files with its failures instead of replacing it
RetryFailuresExtended(failed, failures) == failed \o failures

\* line 218: the list the retry leaves in session_state.failed_files
RetryFailures(failed, failures) == failures

\* the end of the retry run (lines 217-234)
RetryEnd ==
    /\ pc = "retry"
    /\ i = Len(failed_files)
    /\ failed_files' = RetryFailures(failed_files, new_failures)
    /\ IF results # <<>>
       THEN /\ dataframe' = results
            /\ message' = "reprocessed"
            /\ listed_failed' = failed_files'
       ELSE /\ dataframe' = <<>>
            /\ message' = "no_additional"
            /\ listed_failed' = <<>>
    /\ retry_button' = TRUE
    /\ LocalsReset
    /\ pc' = "idle"
    /\ UNCHANGED <<widgets, processed_files, processing_complete, rendered,
                   attempted, error_shown, temp_files>>

Next ==
    \/ \E key \in ApiKeys : SetApiKey(key)
    \/ \E fields \in FieldSelections : SelectFields(fields)
    \/ \E files \in UploadLists : UploadFiles(files)
    \/ ClickExtract
    \/ BatchStep
    \/ BatchEnd
    \/ ClickRetry
    \/ RetryStep
    \/ RetryEnd

Spec == Init /\ [][Next]_vars

\* the same program when the user never uploads two files of one name
NextDistinctNames ==
    \/ \E key \in ApiKeys : SetApiKey(key)
    \/ \E fields \in FieldSelections : SelectFields(fields)
    \/ \E files \in DistinctUploadLists : UploadFiles(files)
    \/ ClickExtract
    \/ BatchStep
    \/ BatchEnd
    \/ ClickRetry
    \/ RetryStep
    \/ RetryEnd

SpecDistinctNames == Init /\ [][NextDistinctNames]_vars

(***************************************************************************)
(* extract_structured_data on its own: lines 37-48 applied to one reply,   *)
(* for the replies made of an optional opening fence, a payload and an     *)
(* optional closing fence, with and without whitespace around them.        *)
(***************************************************************************)
FenceLeads == {<<>>, <<"\n">>}
FenceOpenings ==
    {<<>>, FenceJson, Fence, FenceJson \o <<"\n">>, Fence \o <<"\n">>}
FenceBodies == {ReplyOther, ReplyEmptyObject, ReplyList, ReplyGarbage}
FenceClosings == {<<>>, Fence, <<"\n">> \o Fence}

FenceTexts ==
    {lead \o open \o body \o close \o trail :
        lead \in FenceLeads, open \in FenceOpenings, body \in FenceBodies,
        close \in FenceClosings, trail \in FenceLeads}

InitFence ==
    /\ response \in {Replied(text) : text \in FenceTexts}
    /\ pc = "extract"
    /\ api_key = ValidKey
    /\ selected_fields = DefaultFields
    /\ uploaded_files = <<>>
    /\ failed_files = <<>>
    /\ processed_files = <<>>
    /\ processing_complete = FALSE
    /\ i = 0
    /\ saved_files = <<>>
    /\ results = <<>>
    /\ new_failures = <<>>
    /\ extracted_data = None
    /\ st_error = ""
    /\ rendered = "all"
    /\ retry_button = FALSE
    /\ message = "none"
    /\ dataframe = <<>>
    /\ listed_failed = <<>>
    /\ attempted = {}
    /\ response_text = <<>>
    /\ events = <<>>
    /\ temp_files = 0
    /\ error_shown = {}

\* lines 37-55 on the reply held by response
ExtractFromReply ==
    /\ pc = "extract"
    /\ LET e == extract_structured_data(response)
       IN  /\ response_text' = e.text
           /\ extracted_data' = e.ret
           /\ st_error' = e.err
    /\ pc' = "extracted"
    /\ UNCHANGED <<widgets, session, i, saved_files, results, new_failures,
                   response, events, page, attempted, temp_files, error_shown>>

NextFence == ExtractFromReply

SpecFence == InitFence /\ [][NextFence]_vars

TypeOK ==
    /\ api_key \in ApiKeys
    /\ selected_fields \in FieldSelections
    /\ uploaded_files \in UploadLists
    /\ pc \in {"idle", "batch", "retry"}
    /\ Len(processed_files) <= MaxProcessed
    /\ Len(failed_files) <= MaxFiles
    /\ temp_files \in Nat
    /\ error_shown \subseteq FileNames
    /\ Len(events) <= 5

(***************************************************************************)
(* Vocabulary of the properties.                                           *)
(***************************************************************************)
\* the next step of the running script gives a document to
\* extract_structured_data (line 137 or line 204)
Calling ==
    \/ pc = "batch" /\ i < Len(saved_files)
    \/ /\ pc = "retry"
       /\ i < Len(failed_files)
       /\ FindUpload(uploaded_files, failed_files[i + 1], 1) # 0

\* the document of that step
CurrentName == IF pc = "batch" THEN saved_files[i + 1] ELSE failed_files[i + 1]

\* the list a failure of the running loop is appended to
FailureList == IF pc = "batch" THEN failed_files ELSE new_failures

RowNames(rows) == {rows[k][FileNameKey].s : k \in 1..Len(rows)}

\* the reply, as the parser of extract_structured_data sees it
ParseOutcome(outcome) == json_loads(CleanResponse(outcome.text))
ParsedReplies == Tabulated(ParseOutcome, AllOutcomes)
Parsed(outcome) == ParsedReplies[outcome]

\* the "File Name" column of a table, top to bottom
RowNameSeq(rows) == [k \in 1..Len(rows) |-> rows[k][FileNameKey].s]

\* a can be had from b by leaving elements out
RECURSIVE IsSubseq(_, _)
IsSubseq(a, b) ==
    IF a = <<>> THEN TRUE
    ELSE IF b = <<>> THEN FALSE
    ELSE IF Head(a) = Head(b) THEN IsSubseq(Tail(a), Tail(b))
    ELSE IsSubseq(a, Tail(b))

EndsWith(s, suffix) ==
    Len(s) >= Len(suffix)
    /\ SubSeq(s, Len(s) - Len(suffix) + 1, Len(s)) = suffix

\* the opening marker of a text that starts with one
OpeningOf(t) == IF StartsWith(t, FenceJson) THEN FenceJson ELSE Fence

\* the text starts with an opening marker and ends with a closing marker
\* that is not part of the opening one
Wrapped(t) ==
    /\ StartsWith(t, Fence)
    /\ EndsWith(t, Fence)
    /\ Len(t) >= Len(OpeningOf(t)) + Len(Fence)

\* the text between the markers of a wrapped text
Between(t) == SubSeq(t, Len(OpeningOf(t)) + 1, Len(t) - Len(Fence))

\* the requests to the service among the events of an iteration
ExternalCalls(evs) ==
    SelectSeq(evs, LAMBDA e : e \in {"upload_file", "generate_content"})

ModelCalls(evs) == SelectSeq(evs, LAMBDA e : e = "generate_content")

\* the call raised, or its reply could not be parsed
IsFailure(outcome) == outcome.raised \/ ~Parsed(outcome).ok

\* the reply parsed to a JSON object
IsObject(outcome) ==
    ~outcome.raised /\ Parsed(outcome).ok /\ Parsed(outcome).v.t = "dict"

\* C1: a batch run never aborts: the batch loop is left only at its end,
\* after every document was attempted, with processing_complete true.
C1_BatchNeverAborts ==
    [][pc = "batch" /\ pc' = "idle"
         => processing_complete' /\ i = Len(saved_files)]_vars

\* C2: when a batch run completes, rows + failed names = documents, and
\* every document name is in exactly one of the rows and failed_files.
C2_RowsAndFailuresPartition ==
    [][pc = "batch" /\ pc' = "idle" /\ processing_complete'
         => /\ Len(results) + Len(failed_files') = Len(saved_files)
            /\ \A n \in Range(saved_files) :
                 (n \in RowNames(results)) # (n \in Range(failed_files'))]_vars

\* C3: after a completed batch run or retry, no name is both in
\* processed_files and in failed_files, and the two together are the names
\* attempted in the run and its retries.
C3_ProcessedFailedPartition ==
    pc = "idle" /\ message \in {"completed", "no_data", "reprocessed", "no_additional"}
        => /\ Range(processed_files) \cap Range(failed_files) = {}
           /\ Range(processed_files) \cup Range(failed_files) = attempted

\* C4: a failed name whose document is no longer among the uploaded files
\* is still in failed_files when the retry has finished.
C4_UnresolvedStaysFailed ==
    [][pc = "retry" /\ pc' = "idle"
         => \A n \in Range(failed_files) :
              FindUpload(uploaded_files, n, 1) = 0 => n \in Range(failed_files')]_vars

\* C5: retry monotonicity: no step of a retry adds a name to failed_files
\* or makes the list longer.
C5_RetryMonotone ==
    [][pc = "retry" \/ pc' = "retry"
         => /\ Range(failed_files') \subseteq Range(failed_files)
            /\ Len(failed_files') <= Len(failed_files)]_vars

\* a retry has finished in which one document succeeded and one failed again
C5_Witness ==
    /\ pc = "idle"
    /\ message = "reprocessed"
    /\ failed_files # <<>>

\* C6: after a retry in which a failed document succeeds, that document is
\* out of the failure set and the table shown is cumulative: the rows shown
\* before the retry, followed by the new rows.
C6_CumulativeTable ==
    [][pc = "retry" /\ pc' = "idle" /\ message' = "reprocessed"
         => /\ RowNames(results) \cap Range(failed_files') = {}
            /\ dataframe' = dataframe \o results]_vars

\* C7: a document whose extraction failed (the call raised or the reply
\* could not be parsed) goes to the failure set, and a reply that parses to
\* a JSON object, even an empty one, gives one row and no failure.  (What
\* becomes of a reply that parses to something else is left open here.)
C7_FailureIffExtractionFailed ==
    [][Calling
         => LET failed_added ==
                  pc' = pc /\ FailureList' = Append(FailureList, CurrentName)
                row_added ==
                  pc' = pc /\ Len(results') = Len(results) + 1
            IN  /\ IsFailure(response') => failed_added
                /\ IsObject(response') => row_added /\ ~failed_added]_vars

\* C8: sentinel substitution: a row has exactly the keys "File Name" and the
\* selected fields; each field holds the reply's value when the reply has
\* the key and "Not Found" otherwise; in the batch and in the retry.
C8_SentinelSubstitution ==
    [][Calling /\ Len(results') = Len(results) + 1
         => LET row == results'[Len(results')]
                reply == Parsed(response').v.o
            IN  /\ DOMAIN row = {FileNameKey} \cup Range(selected_fields)
                /\ row[FileNameKey] = PyStr(CurrentName)
                /\ \A f \in Range(selected_fields) :
                     row[f] = IF f \in DOMAIN reply THEN reply[f]
                              ELSE PyStr(NotFoundText)]_vars

\* the retry has made a row that holds a value of the reply, the null of the
\* reply and a sentinel, from a reply with a key that was not selected
C8_Witness ==
    /\ pc = "retry"
    /\ results # <<>>
    /\ utr_number \in DOMAIN extracted_data.o
    /\ results[Len(results)][company_name] = PyStr(<<"A">>)
    /\ results[Len(results)][total_amount] = None
    /\ results[Len(results)][invoice_number] = PyStr(NotFoundText)

\* C9: a reply that cannot be parsed makes extract_structured_data return
\* None without raising; the name goes to the failure list and from there
\* to failed_files, and no row is added for the document.
C9_MalformedReplyFails ==
    [][/\ Calling /\ ~response'.raised /\ ~Parsed(response').ok
            => /\ extracted_data' = None
               /\ st_error' = "parse"
               /\ pc' = pc
               /\ FailureList' = Append(FailureList, CurrentName)
               /\ results' = results
               /\ processed_files' = processed_files
       /\ pc = "retry" /\ pc' = "idle"
            => Range(new_failures) \subseteq Range(failed_files')]_vars

\* the batch has just had the reply "not json at all" for a document
C9_Witness ==
    /\ pc = "batch"
    /\ response = Replied(ReplyGarbage)
    /\ st_error = "parse"
    /\ failed_files # <<>>
    /\ failed_files[Len(failed_files)] = saved_files[i]

\* C10: no document is given to the model while the API key is absent or
\* not accepted by the service.
C10_NoCallWithoutValidKey ==
    [][Calling => api_key = ValidKey]_vars

C12_RowsInUploadOrder ==
    [][/\ pc' = "batch"
            => IsSubseq(RowNameSeq(results'), SubSeq(saved_files', 1, i'))
       /\ pc = "batch" /\ Calling
            => /\ CurrentName = uploaded_files[i + 1]
               /\ pc' = "batch" => i' = i + 1
       /\ pc = "batch" /\ pc' = "idle" /\ message' = "completed"
            => /\ dataframe' = results
               /\ IsSubseq(RowNameSeq(dataframe'), uploaded_files)]_vars

\* a batch over B.pdf then A.pdf has ended with a row for each, B's first
C12_Witness ==
    /\ pc = "idle"
    /\ message = "completed"
    /\ uploaded_files = <<NameB, NameA>>
    /\ RowNameSeq(dataframe) = <<NameB, NameA>>

\* C13: while a batch or a retry runs the selection of fields is not empty
\* and holds only keys of AVAILABLE_FIELDS, so extract_structured_data is
\* never invoked with an empty selection.
C13_NoRunWithEmptySelection ==
    pc \in {"batch", "retry"}
        => /\ selected_fields # <<>>
           /\ Range(selected_fields) \subseteq Range(AVAILABLE_FIELDS)

\* a retry is about to give a document to extract_structured_data with a
\* selection that is not the default one
C13_Witness ==
    /\ pc = "retry"
    /\ Calling
    /\ selected_fields = <<company_name>>

\* C14: when a batch run starts, the first one or a later one, failed_files
\* and processed_files are both empty.
C14_BatchStartsWithEmptyTracking ==
    pc = "batch" /\ i = 0
        => failed_files = <<>> /\ processed_files = <<>>

\* C15: the text given to the parser is the text between the markers (with
\* the whitespace around it stripped) when the stripped reply opens with a
\* fence marker and closes with one, and the stripped reply itself, with no
\* character removed, in every other case.
C15_OnlyFenceMarkersRemoved ==
    pc = "extracted"
        => LET t == Strip(response.text)
           IN  response_text = IF Wrapped(t) THEN Strip(Between(t)) ELSE t

\* C16: after a batch run that has gone through every document and left
\* failures, every failed document is named to the user, in the list of
\* failed files or at least in an error message of the run; also when no
\* document gave a row.
C16_FailedDocumentsListed ==
    pc = "idle" /\ message \in {"completed", "no_data"}
        => Range(failed_files) \subseteq Range(listed_failed) \cup error_shown

\* C17: a retry pass runs only while processing_complete is true and
\* failed_files is not empty; processing_complete is false all through a
\* batch and becomes true only at the end of a batch loop that went through
\* every document, so no retry runs over the failures of a batch that did
\* not reach its end; and failed_files, once empty, gets a name again only
\* from a batch, so that no retry can run before one does.
C17_RetryGatedBySessionState ==
    [][/\ pc' = "retry" => processing_complete' /\ failed_files' # <<>>
       /\ pc' = "batch" => ~processing_complete'
       /\ ~processing_complete /\ processing_complete'
            => pc = "batch" /\ i = Len(saved_files) /\ pc' = "idle"
       /\ failed_files = <<>> /\ failed_files' # <<>> => pc = "batch"]_vars

\* a batch has been ended by an exception after a document had failed: the
\* failure set is partial, processing_complete is false and the page has no
\* retry button
C17_Witness ==
    /\ pc = "idle"
    /\ message = "exception"
    /\ failed_files # <<>>
    /\ ~processing_complete
    /\ ~retry_button

(***************************************************************************)
(* The session of the retry's progress: the user gives the valid key,      *)
(* uploads files of distinct names, runs one batch and from then on only   *)
(* presses "Reprocess Failed Files", so the uploaded files stay available. *)
(* The replies that end a retry with the uncaught AttributeError are left  *)
(* out: each of them leaves failed_files as it was, and lengthens          *)
(* processed_files without bound.                                          *)
(***************************************************************************)
EnterValidKey == SetApiKey(ValidKey)

UploadBeforeBatch(files) == attempted = {} /\ UploadFiles(files)

ExtractOnce == attempted = {} /\ ClickExtract

RetryStepInLoop == RetryStep /\ pc' = "retry"

\* the retry gives the document of this name to the model and the reply
\* parses to a JSON object
RetryObjectReply(name) ==
    RetryStepInLoop /\ CurrentName = name /\ IsObject(response')

NextLive ==
    \/ EnterValidKey
    \/ \E files \in DistinctUploadLists : UploadBeforeBatch(files)
    \/ ExtractOnce
    \/ BatchStep
    \/ BatchEnd
    \/ ClickRetry
    \/ RetryStepInLoop
    \/ RetryEnd

\* a started script runs on, the user presses the retry button whenever it
\* is there, and a document that is retried again and again gets a reply
\* that parses to an object again and again
FairLive ==
    /\ WF_vars(BatchStep)
    /\ WF_vars(BatchEnd)
    /\ WF_vars(ClickRetry)
    /\ WF_vars(RetryStepInLoop)
    /\ WF_vars(RetryEnd)
    /\ \A name \in FileNames : SF_vars(RetryObjectReply(name))

SpecLive == Init /\ [][NextLive]_vars /\ FairLive

\* C18: from the end of a batch that left failures, with the files still
\* uploaded, the retries pressed again and again and the model replying with
\* an object to each failed document again and again, a state is reached
\* where failed_files is empty and every document of the batch is in
\* processed_files.
C18_RetryEventuallyClears ==
    (pc = "idle" /\ processing_complete /\ failed_files # <<>>)
        ~> (failed_files = <<>> /\ Range(uploaded_files) \subseteq Range(processed_files))

====
